---- MODULE Spec2Model ----
(***************************************************************************)
(* Behavior binding resolution and parameter validation of                 *)
(* app/src/behavior.c: the registry lookup (z_impl_behavior_get_binding),  *)
(* the standard-domain and custom-schema validators, the binding validator *)
(* (zmk_behavior_validate_binding) and the start-up name audit             *)
(* (check_behavior_names).                                                 *)
(***************************************************************************)
EXTENDS Integers, Sequences, FiniteSets, TLC

VARIABLES
    registry,   \* the zmk_behavior_ref section: a sequence of [name, ready]
    config,     \* the build configuration (Kconfig switches)
    booted,     \* TRUE once the APPLICATION-level SYS_INIT callback has run
    pc,         \* "call": the call in `call` is about to run; "return": it has returned
    call,       \* the current call and its arguments
    ret,        \* the value that call returned
    log         \* what that call evaluated / emitted, in order

vars == <<registry, config, booted, pc, call, ret, log>>

(***************************************************************************)
(* Bounds of the model.                                                    *)
(***************************************************************************)
MaxEntries == 3          \* registry size explored for resolve and the audit

(***************************************************************************)
(* Strings.  rom is read-only memory holding NUL-terminated byte strings;  *)
(* a const char * is an index into it and NULL is 0.  The bytes spell      *)
(* "a\0ab\0ab\0": the name "ab" is stored twice at different addresses,    *)
(* and "a" is a proper prefix of it.  A pointer into the middle of a       *)
(* string ("b" at 4 and 7, "" at 2, 5 and 8) is what a caller that builds  *)
(* its name at run time may pass.                                          *)
(***************************************************************************)
NULL == 0

rom == <<1, 0, 1, 2, 0, 1, 2, 0>>

Pointers == 1..Len(rom)

\* The addresses at which a string literal starts: the device names.
NamePointers == {p \in Pointers : p = 1 \/ rom[p - 1] = 0}

RECURSIVE strcmp(_, _)
strcmp(s1, s2) ==
    IF rom[s1] # rom[s2] THEN rom[s1] - rom[s2]
    ELSE IF rom[s1] = 0 THEN 0
    ELSE strcmp(s1 + 1, s2 + 1)

(***************************************************************************)
(* The registry.  An entry's device is identified by its index in the      *)
(* table; NoDevice is the NULL device pointer.                             *)
(***************************************************************************)
NoDevice == 0

BehaviorRef == [name : NamePointers, ready : BOOLEAN]

Tables(n) == UNION {[1..k -> BehaviorRef] : k \in 0..n}

z_device_is_ready(reg, i) == reg[i].ready

\* The test of the fast pass, with the readiness check left out.
IdentityMatch_NoReadyCheck(reg, i, name) == reg[i].name = name

\* z_device_is_ready(item->device) && item->device->name == name
IdentityMatch(reg, i, name) == z_device_is_ready(reg, i) /\ reg[i].name = name

\* The test of the fallback pass, with the readiness check left out.
StrcmpMatch_NoReadyCheck(reg, i, name) == strcmp(reg[i].name, name) = 0

\* z_device_is_ready(item->device) && strcmp(item->device->name, name) == 0
StrcmpMatch(reg, i, name) ==
    z_device_is_ready(reg, i) /\ strcmp(reg[i].name, name) = 0

\* STRUCT_SECTION_FOREACH with the pointer comparison.
RECURSIVE IdentityPass(_, _, _)
IdentityPass(reg, i, name) ==
    IF i > Len(reg) THEN NoDevice
    ELSE IF IdentityMatch(reg, i, name) THEN i
    ELSE IdentityPass(reg, i + 1, name)

\* STRUCT_SECTION_FOREACH with strcmp.
RECURSIVE StrcmpPass(_, _, _)
StrcmpPass(reg, i, name) ==
    IF i > Len(reg) THEN NoDevice
    ELSE IF StrcmpMatch(reg, i, name) THEN i
    ELSE StrcmpPass(reg, i + 1, name)

\* The lookup without its fallback pass.
z_impl_behavior_get_binding_IdentityOnly(reg, name) ==
    IF name = NULL \/ rom[name] = 0 THEN NoDevice
    ELSE IdentityPass(reg, 1, name)

z_impl_behavior_get_binding(reg, name) ==
    IF name = NULL \/ rom[name] = 0 THEN NoDevice
    ELSE LET d == IdentityPass(reg, 1, name)
         IN  IF d # NoDevice THEN d ELSE StrcmpPass(reg, 1, name)

zmk_behavior_get_binding(reg, name) == z_impl_behavior_get_binding(reg, name)

(***************************************************************************)
(* check_behavior_names: the nested loops over the section.  The result    *)
(* carries the return value and, in order, every strcmp evaluated and      *)
(* every LOG_ERR emitted, each with the pair of indices it is about.       *)
(***************************************************************************)
\* The inner loop started at the entry itself.
InnerStart_FromSelf(i) == i

\* for (ptrdiff_t j = i + 1; ...
InnerStart(i) == i + 1

RECURSIVE NamesLoop(_, _, _, _)
NamesLoop(reg, i, j, out) ==
    IF i > Len(reg) THEN out
    ELSE IF j > Len(reg) THEN NamesLoop(reg, i + 1, InnerStart(i + 1), out)
    ELSE LET cmp == Append(out, <<"strcmp", i, j>>)
             nxt == IF strcmp(reg[i].name, reg[j].name) = 0
                    THEN Append(cmp, <<"LOG_ERR", i, j>>)
                    ELSE cmp
         IN  NamesLoop(reg, i, j + 1, nxt)

check_behavior_names(reg) == [ret |-> 0, log |-> NamesLoop(reg, 1, InnerStart(1), <<>>)]

(***************************************************************************)
(* The registry operations as actions.                                     *)
(***************************************************************************)
Configs == [metadata : BOOLEAN, consumer_basic : BOOLEAN, log : BOOLEAN]

NoCall == [op |-> "none"]

Resolve(name) ==
    /\ pc = "return"
    /\ pc' = "return"
    /\ call' = [op |-> "resolve", name |-> name]
    /\ ret' = zmk_behavior_get_binding(registry, name)
    /\ log' = <<>>
    /\ UNCHANGED <<registry, config, booted>>

\* SYS_INIT(check_behavior_names, APPLICATION, ...): once, when logging is built in.
Audit ==
    /\ config.log
    /\ ~booted
    /\ LET r == check_behavior_names(registry)
       IN  /\ ret' = r.ret
           /\ log' = r.log
    /\ pc = "return"
    /\ pc' = "return"
    /\ call' = [op |-> "audit"]
    /\ booted' = TRUE
    /\ UNCHANGED <<registry, config>>

InitRegistry ==
    /\ registry \in Tables(MaxEntries)
    /\ config \in {c \in Configs : c.metadata /\ ~c.consumer_basic}
    /\ booted = FALSE
    /\ pc = "return"
    /\ call = NoCall
    /\ ret = 0
    /\ log = <<>>

ResolveStep == \E name \in {NULL} \cup Pointers : Resolve(name)

NextRegistry == ResolveStep \/ Audit

SpecRegistry == InitRegistry /\ [][NextRegistry]_vars

(***************************************************************************)
(* Error numbers (negated on return) and the configured limits.            *)
(***************************************************************************)
ENODEV == 19
EINVAL == 22
ENOTSUP == 134

HID_USAGE_KEY == 7
HID_USAGE_CONSUMER == 12
ZMK_HID_KEYBOARD_NKRO_MAX_USAGE == 65
ZMK_KEYMAP_LEN == 4

ConsumerMaxBasic == 255
ConsumerMaxFull == 4095

U16 == 65536

\* The packing of a usage page and a usage id in one 32-bit word.
ZMK_HID_USAGE(page, id) == page * U16 + id
ZMK_HID_USAGE_PAGE(val) == (val \div U16) % U16
ZMK_HID_USAGE_ID(val) == val % U16

(***************************************************************************)
(* The Domain Validator.                                                   *)
(***************************************************************************)
\* The keyboard limit taken as exclusive.
validate_hid_usage_ExclusiveMax(usage_page, usage_id) ==
    IF usage_page = HID_USAGE_KEY
    THEN IF usage_id = 0 \/ usage_id >= ZMK_HID_KEYBOARD_NKRO_MAX_USAGE
         THEN -EINVAL ELSE 0
    ELSE IF usage_page = HID_USAGE_CONSUMER
    THEN IF usage_id > (IF config.consumer_basic THEN ConsumerMaxBasic ELSE ConsumerMaxFull)
         THEN -EINVAL ELSE 0
    ELSE -EINVAL

validate_hid_usage(usage_page, usage_id) ==
    IF usage_page = HID_USAGE_KEY
    THEN IF usage_id = 0 \/ usage_id > ZMK_HID_KEYBOARD_NKRO_MAX_USAGE
         THEN -EINVAL ELSE 0
    ELSE IF usage_page = HID_USAGE_CONSUMER
    THEN IF usage_id > (IF config.consumer_basic THEN ConsumerMaxBasic ELSE ConsumerMaxFull)
         THEN -EINVAL ELSE 0
    ELSE -EINVAL

Domains == {"NULL", "HID_USAGE", "LAYER_INDEX", "HSV"}

validate_standard_param(standard_domain, val) ==
    IF standard_domain = "NULL"
        THEN IF val # 0 THEN -EINVAL ELSE 0
    ELSE IF standard_domain = "HID_USAGE"
        THEN validate_hid_usage(ZMK_HID_USAGE_PAGE(val), ZMK_HID_USAGE_ID(val))
    ELSE IF standard_domain = "LAYER_INDEX"
        THEN IF val >= ZMK_KEYMAP_LEN THEN -EINVAL ELSE 0
    ELSE 0

(***************************************************************************)
(* The Custom Schema Matcher.  A value descriptor is                       *)
(* [position, type, standard, value, min, max]; a set is a sequence of     *)
(* them; custom is [present, sets], present = FALSE being the NULL         *)
(* pointer.  The log gets <<"value", s, v>> for each pass through the      *)
(* inner loop's body and <<"validate_standard_param", domain, param>> for  *)
(* each call of the Domain Validator.                                      *)
(***************************************************************************)
ScanStart == [had1 |-> FALSE, had2 |-> FALSE, matched1 |-> FALSE, matched2 |-> FALSE,
              log |-> <<>>]

\* The body of the inner loop for descriptor v of set s.
ScanValue(s, v, value_meta, st, param1, param2) ==
    LET param == IF value_meta.position = 0 THEN param1 ELSE param2
        hit == IF value_meta.type = "STANDARD"
                   THEN validate_standard_param(value_meta.standard, param) = 0
               ELSE IF value_meta.type = "VALUE"
                   THEN param = value_meta.value
               ELSE IF value_meta.type = "RANGE"
                   THEN param >= value_meta.min /\ param <= value_meta.max
               ELSE FALSE
        seen == Append(st.log, <<"value", s, v>>)
    IN  [had1 |-> st.had1 \/ value_meta.position = 0,
         had2 |-> st.had2 \/ value_meta.position # 0,
         matched1 |-> st.matched1 \/ (value_meta.position = 0 /\ hit),
         matched2 |-> st.matched2 \/ (value_meta.position # 0 /\ hit),
         log |-> IF value_meta.type = "STANDARD"
                 THEN Append(seen, <<"validate_standard_param", value_meta.standard, param>>)
                 ELSE seen]

\* The loop condition without its early exit.
ScanContinues_NoEarlyExit(set, v, st) == v <= Len(set)

\* v < set->values_len && (!param1_matched || !param2_matched)
ScanContinues(set, v, st) == v <= Len(set) /\ (~st.matched1 \/ ~st.matched2)

\* The test after the loop, a position without descriptors accepting any value.
SetSatisfied_AnyValueWithoutMetadata(st, param1, param2) ==
    /\ (st.matched1 \/ ~st.had1)
    /\ (st.matched2 \/ ~st.had2)

\* (param1_matched || (!had_param1_metadata && param1 == 0)) && (... param2 ...)
SetSatisfied(st, param1, param2) ==
    /\ (st.matched1 \/ (~st.had1 /\ param1 = 0))
    /\ (st.matched2 \/ (~st.had2 /\ param2 = 0))

\* for (v = 0; v < values_len && (!param1_matched || !param2_matched); v++)
RECURSIVE ScanValues(_, _, _, _, _, _)
ScanValues(s, set, v, st, param1, param2) ==
    IF ScanContinues(set, v, st)
    THEN ScanValues(s, set, v + 1, ScanValue(s, v, set[v], st, param1, param2),
                    param1, param2)
    ELSE st

\* for (s = 0; s < sets_len; s++)
RECURSIVE ScanSets(_, _, _, _, _)
ScanSets(sets, s, param1, param2, out) ==
    IF s > Len(sets) THEN [ret |-> -EINVAL, log |-> out]
    ELSE LET st == ScanValues(s, sets[s], 1, ScanStart, param1, param2)
         IN  IF SetSatisfied(st, param1, param2)
             THEN [ret |-> 0, log |-> out \o st.log]
             ELSE ScanSets(sets, s + 1, param1, param2, out \o st.log)

\* The absent set list reported as a failed match.
validate_custom_params_AbsentIsInvalid(custom, param1, param2) ==
    IF ~custom.present THEN [ret |-> -EINVAL, log |-> <<>>]
    ELSE ScanSets(custom.sets, 1, param1, param2, <<>>)

validate_custom_params(custom, param1, param2) ==
    IF ~custom.present THEN [ret |-> -ENODEV, log |-> <<>>]
    ELSE ScanSets(custom.sets, 1, param1, param2, <<>>)

(***************************************************************************)
(* The Binding Validator.  response is what behavior_get_parameter_domains *)
(* answers for the resolved device: [ret, metadata], metadata being        *)
(* [type, standard : [param1, param2], custom].                            *)
(***************************************************************************)
\* Both parameters checked before either result is looked at.
ValidateStandardCase_BothChecked(standard, binding, fetched) ==
    LET r1 == validate_standard_param(standard.param1, binding.param1)
        r2 == validate_standard_param(standard.param2, binding.param2)
    IN  [ret |-> IF r1 < 0 THEN r1 ELSE r2,
         log |-> fetched \o <<<<"validate_standard_param", standard.param1, binding.param1>>,
                               <<"validate_standard_param", standard.param2, binding.param2>>>>]

\* case BEHAVIOR_PARAMETER_METADATA_STANDARD
ValidateStandardCase(standard, binding, fetched) ==
    LET r1 == validate_standard_param(standard.param1, binding.param1)
        l1 == Append(fetched, <<"validate_standard_param", standard.param1, binding.param1>>)
    IN  IF r1 < 0 THEN [ret |-> r1, log |-> l1]
        ELSE [ret |-> validate_standard_param(standard.param2, binding.param2),
              log |-> Append(l1, <<"validate_standard_param", standard.param2,
                                   binding.param2>>)]

\* The metadata fetched before the resolved device is tested.
zmk_behavior_validate_binding_FetchFirst(reg, binding, response) ==
    IF ~config.metadata THEN [ret |-> 0, log |-> <<>>]
    ELSE
    LET behavior == zmk_behavior_get_binding(reg, binding.behavior_dev)
        fetched == <<<<"behavior_get_parameter_domains", behavior, 0>>>>
        metadata == response.metadata
    IN  IF response.ret < 0 THEN [ret |-> response.ret, log |-> fetched]
        ELSE IF behavior = NoDevice THEN [ret |-> -ENODEV, log |-> fetched]
        ELSE IF metadata.type = "STANDARD"
            THEN ValidateStandardCase(metadata.standard, binding, fetched)
        ELSE IF metadata.type = "CUSTOM" THEN
            LET r == validate_custom_params(metadata.custom, binding.param1,
                                            binding.param2)
            IN  [ret |-> r.ret, log |-> fetched \o r.log]
        ELSE [ret |-> -ENOTSUP, log |-> fetched]

zmk_behavior_validate_binding(reg, binding, response) ==
    IF ~config.metadata THEN [ret |-> 0, log |-> <<>>]
    ELSE
    LET behavior == zmk_behavior_get_binding(reg, binding.behavior_dev)
        fetched == <<<<"behavior_get_parameter_domains", behavior, 0>>>>
        metadata == response.metadata
    IN  IF behavior = NoDevice THEN [ret |-> -ENODEV, log |-> <<>>]
        ELSE IF response.ret < 0 THEN [ret |-> response.ret, log |-> fetched]
        ELSE IF metadata.type = "STANDARD"
            THEN ValidateStandardCase(metadata.standard, binding, fetched)
        ELSE IF metadata.type = "CUSTOM" THEN
            LET r == validate_custom_params(metadata.custom, binding.param1,
                                            binding.param2)
            IN  [ret |-> r.ret, log |-> fetched \o r.log]
        ELSE [ret |-> -ENOTSUP, log |-> fetched]

(***************************************************************************)
(* Inputs of the validators.                                               *)
(***************************************************************************)
MaxSets == 2             \* alternative sets in one custom metadata
MaxDescriptors == 3      \* value descriptors in one custom metadata, all sets together
MaxBindingEntries == 1   \* registry size explored for validate

Descriptor(position, type, standard, value, min, max) ==
    [position |-> position, type |-> type, standard |-> standard,
     value |-> value, min |-> min, max |-> max]

\* For each position: a layer index, the literal 5, and the range 1..5.
DescriptorPool ==
    {Descriptor(pos, "STANDARD", "LAYER_INDEX", 0, 0, 0) : pos \in {0, 1}} \cup
    {Descriptor(pos, "VALUE", "NULL", 5, 0, 0) : pos \in {0, 1}} \cup
    {Descriptor(pos, "RANGE", "NULL", 0, 1, 5) : pos \in {0, 1}}

\* 0 and 2 are layer indices, 2 and 5 lie in the range, 9 fits no descriptor.
CustomValues == {0, 2, 5, 9}

FlatDescriptors(n) == UNION {[1..k -> DescriptorPool] : k \in 0..n}

\* The ways of cutting a sequence of length n into k consecutive sets.
Cuts(n, k) ==
    {c \in [0..k -> 0..n] :
        /\ c[0] = 0
        /\ k > 0 => c[k] = n
        /\ \A i \in 1..k : c[i - 1] <= c[i]}

SplitSets(flat, k, c) == [i \in 1..k |-> SubSeq(flat, c[i - 1] + 1, c[i])]

NoCustom == [present |-> FALSE, sets |-> <<>>]

Customs(nsets, ndesc) ==
    {NoCustom} \cup
    UNION {UNION {{[present |-> TRUE, sets |-> SplitSets(flat, k, c)] :
                      c \in Cuts(Len(flat), k)} :
                  k \in (IF Len(flat) = 0 THEN 0 ELSE 1)..nsets} :
           flat \in FlatDescriptors(ndesc)}

\* Values around every limit of the Domain Validator, on the two supported
\* usage pages and on unsupported ones.
DomainIds ==
    {0, 1, ZMK_KEYMAP_LEN - 1, ZMK_KEYMAP_LEN,
     ZMK_HID_KEYBOARD_NKRO_MAX_USAGE, ZMK_HID_KEYBOARD_NKRO_MAX_USAGE + 1,
     ConsumerMaxBasic, ConsumerMaxBasic + 1, ConsumerMaxFull, ConsumerMaxFull + 1,
     U16 - 1}

\* (TLC's integers are 32-bit signed, so the pages stop at 2^15 - 1)
DomainPages ==
    {0, 1, HID_USAGE_KEY, HID_USAGE_CONSUMER, HID_USAGE_KEY + 256, (U16 \div 2) - 1}

DomainValues == {ZMK_HID_USAGE(page, id) : page \in DomainPages, id \in DomainIds}

\* For validate: 0, a value that is no layer index, and the usage of a key.
BindingValues == {0, 5, ZMK_HID_USAGE(HID_USAGE_KEY, 4)}

BindingNames == {NULL, 1, 2, 3, 4, 6}

Bindings == [behavior_dev : BindingNames, param1 : BindingValues, param2 : BindingValues]

NoStandard == [param1 |-> "NULL", param2 |-> "NULL"]

Metadatas ==
    {[type |-> "STANDARD", standard |-> [param1 |-> d1, param2 |-> d2],
      custom |-> NoCustom] : d1 \in Domains, d2 \in Domains} \cup
    {[type |-> "CUSTOM", standard |-> NoStandard, custom |-> c] : c \in Customs(1, 1)} \cup
    {[type |-> "OTHER", standard |-> NoStandard, custom |-> NoCustom]}

\* What the provider may answer instead of metadata: any negative value.
ProviderErrors == {-1, -ENODEV}

Responses ==
    {[ret |-> 0, metadata |-> m] : m \in Metadatas} \cup
    {[ret |-> e, metadata |-> [type |-> "OTHER", standard |-> NoStandard,
                               custom |-> NoCustom]] : e \in ProviderErrors}

(***************************************************************************)
(* The validators as actions.  The arguments of the call are drawn by the  *)
(* initial state; the action is the call itself.                           *)
(***************************************************************************)
\* validate_standard_param(call.domain, call.val) runs and returns.
ValidateStandardParam ==
    /\ pc = "call"
    /\ call.op = "validate_standard_param"
    /\ ret' = validate_standard_param(call.domain, call.val)
    /\ log' = <<>>
    /\ pc' = "return"
    /\ UNCHANGED <<registry, config, booted, call>>

\* validate_custom_params(call.custom, call.param1, call.param2) runs and returns.
ValidateCustomParams ==
    /\ pc = "call"
    /\ call.op = "validate_custom_params"
    /\ LET r == validate_custom_params(call.custom, call.param1, call.param2)
       IN  /\ ret' = r.ret
           /\ log' = r.log
    /\ pc' = "return"
    /\ UNCHANGED <<registry, config, booted, call>>

\* zmk_behavior_validate_binding(&call.binding) runs and returns; the
\* metadata provider, if asked, answers call.response.
Validate ==
    /\ pc = "call"
    /\ call.op = "validate"
    /\ LET r == zmk_behavior_validate_binding(registry, call.binding, call.response)
       IN  /\ ret' = r.ret
           /\ log' = r.log
    /\ pc' = "return"
    /\ UNCHANGED <<registry, config, booted, call>>

\* Every domain with every value of DomainValues, under both consumer limits.
InitDomain ==
    /\ registry = <<>>
    /\ config \in {c \in Configs : c.metadata /\ ~c.log}
    /\ booted = FALSE
    /\ pc = "call"
    /\ call \in [op : {"validate_standard_param"}, domain : Domains, val : DomainValues]
    /\ ret = 0
    /\ log = <<>>

NextDomain == ValidateStandardParam

SpecDomain == InitDomain /\ [][NextDomain]_vars

\* Every custom metadata within the bounds with every pair of CustomValues.
InitCustom ==
    /\ registry = <<>>
    /\ config \in {c \in Configs : c.metadata /\ ~c.consumer_basic /\ ~c.log}
    /\ booted = FALSE
    /\ pc = "call"
    /\ call \in [op : {"validate_custom_params"},
                 custom : Customs(MaxSets, MaxDescriptors),
                 param1 : CustomValues, param2 : CustomValues]
    /\ ret = 0
    /\ log = <<>>

NextCustom == ValidateCustomParams

SpecCustom == InitCustom /\ [][NextCustom]_vars

\* Every registry of at most MaxBindingEntries entries, with and without
\* metadata validation built in, every binding and every provider answer.
InitValidate ==
    /\ registry \in Tables(MaxBindingEntries)
    /\ config \in {c \in Configs : ~c.log}
    /\ booted = FALSE
    /\ pc = "call"
    /\ call \in [op : {"validate"}, binding : Bindings, response : Responses]
    /\ ret = 0
    /\ log = <<>>

NextValidate == Validate

SpecValidate == InitValidate /\ [][NextValidate]_vars

(***************************************************************************)
(* Vocabulary of the registry claims, defined on the bytes themselves and  *)
(* not through the lookup's own loops.                                     *)
(***************************************************************************)
Min(S) == CHOOSE x \in S : \A y \in S : x <= y

\* The bytes of the string at p, without its terminator.
CString(p) ==
    LET end == Min({q \in p..Len(rom) : rom[q] = 0})
    IN  [k \in 1..(end - p) |-> rom[p + k - 1]]

SameBytes(p, q) == p # NULL /\ q # NULL /\ CString(p) = CString(q)

ReadyByteEqual(reg, name) ==
    {i \in 1..Len(reg) : reg[i].ready /\ SameBytes(reg[i].name, name)}

ReadyIdentical(reg, name) ==
    {i \in 1..Len(reg) : reg[i].ready /\ name # NULL /\ reg[i].name = name}

\* The single pass: the first ready entry, in table order, with a byte-equal name.
FirstReadyByteEqual(reg, name) ==
    IF ReadyByteEqual(reg, name) = {} THEN NoDevice ELSE Min(ReadyByteEqual(reg, name))

Resolved == pc = "return" /\ call.op = "resolve"

\* C2 as stated: the two-pass resolve always returns what the single byte-wise
\* pass returns, duplicate names included.
C2_SinglePassAlways ==
    Resolved => ret = FirstReadyByteEqual(registry, call.name)

\* C2, amended: the two-pass resolve finds an entry exactly when the single
\* byte-wise pass does, and the entry it returns is ready and byte-equal to the
\* argument; it is the first ready entry whose stored name reference is
\* identical to the argument when there is one, and it is the single pass's
\* entry whenever no such entry exists or that entry is also the first ready
\* byte-equal one (in particular when no two ready entries share a name).
C2_TwoPassVersusSinglePass ==
    Resolved =>
        LET same == ReadyByteEqual(registry, call.name)
            ident == ReadyIdentical(registry, call.name)
        IN  /\ (ret = NoDevice) <=> (same = {})
            /\ ret # NoDevice => ret \in same
            /\ ident # {} => ret = Min(ident)
            /\ (ident = {} \/ Min(ident) = Min(same))
                   => ret = FirstReadyByteEqual(registry, call.name)

\* Two ready entries bear the name the caller passes, neither through the
\* caller's reference, and the first of them is returned.
C2_Witness ==
    /\ Resolved
    /\ ret = 1
    /\ 2 \in ReadyByteEqual(registry, call.name)
    /\ ReadyIdentical(registry, call.name) = {}

\* C3 as stated: for every ready entry e, resolve with a name byte-equal to e's
\* returns e itself.
C3_ExactNameReturnsEntry ==
    Resolved =>
        \A e \in ReadyByteEqual(registry, call.name) : ret = e

\* C3, amended: for every ready entry e, resolve with a name byte-equal to e's
\* (the stored reference or a separately built string) returns a ready entry
\* with that name, and returns e itself whenever no other ready entry has a
\* byte-equal name.
C3_ExactNameResolves ==
    Resolved =>
        \A e \in ReadyByteEqual(registry, call.name) :
            /\ ret \in ReadyByteEqual(registry, call.name)
            /\ ReadyByteEqual(registry, call.name) = {e} => ret = e

\* A byte-equal name at another address resolves to the only ready entry
\* bearing it, which is not the first entry of the table.
C3_Witness ==
    /\ Resolved
    /\ ret = 2
    /\ ReadyByteEqual(registry, call.name) = {2}
    /\ registry[2].name # call.name

\* C4: resolve never returns an entry that is not ready; it returns nothing
\* for an absent or empty name, when no entry has the name, and when every
\* entry with the name is not ready; a not-ready entry earlier in the table
\* does not keep a later ready entry with the same name from being returned.
C4_OnlyReadyEntries ==
    Resolved =>
        LET named == {i \in 1..Len(registry) : SameBytes(registry[i].name, call.name)}
        IN  /\ ret # NoDevice => ret \in 1..Len(registry) /\ registry[ret].ready
            /\ call.name = NULL => ret = NoDevice
            /\ (call.name # NULL /\ rom[call.name] = 0) => ret = NoDevice
            /\ named = {} => ret = NoDevice
            /\ (\A i \in named : ~registry[i].ready) => ret = NoDevice
            /\ \A i \in named : \A j \in named :
                   (i < j /\ ~registry[i].ready /\ registry[j].ready)
                       => (ret \in named /\ registry[ret].ready)

\* The first entry with the name is not ready and a later one is returned.
C4_Witness ==
    /\ Resolved
    /\ ret > 1
    /\ SameBytes(registry[1].name, call.name)
    /\ ~registry[1].ready

Pairs(reg) == {p \in (1..Len(reg)) \X (1..Len(reg)) : p[1] < p[2]}

Events(l, kind) == {k \in 1..Len(l) : l[k][1] = kind}

\* C8: the audit compares every pair (i, j), i < j, once, emits a diagnostic
\* for exactly the pairs whose names are byte-equal, returns success, and
\* leaves the registry as it was: every resolve returns the same entry after
\* the audit as before it.
C8_AuditIsAdvisory ==
    [][(~booted /\ booted') =>
          /\ ret' = 0
          /\ registry' = registry
          /\ {<<log'[k][2], log'[k][3]>> : k \in Events(log', "strcmp")} = Pairs(registry)
          /\ Cardinality(Events(log', "strcmp")) = Cardinality(Pairs(registry))
          /\ {<<log'[k][2], log'[k][3]>> : k \in Events(log', "LOG_ERR")} =
                 {p \in Pairs(registry) :
                      SameBytes(registry[p[1]].name, registry[p[2]].name)}
          /\ \A name \in {NULL} \cup Pointers :
                 zmk_behavior_get_binding(registry', name) =
                     zmk_behavior_get_binding(registry, name)
      ]_vars

\* The audit ran over three entries, found one colliding pair and passed
\* over the two pairs that do not collide.
C8_Witness ==
    /\ pc = "return"
    /\ call.op = "audit"
    /\ Len(registry) = 3
    /\ Cardinality(Events(log, "LOG_ERR")) = 1
    /\ Cardinality(Events(log, "strcmp")) = 3

(***************************************************************************)
(* Vocabulary of the validator claims.                                     *)
(***************************************************************************)
Returned(op) == pc = "return" /\ call.op = op

\* The rule of section 4.2 for one domain and one value.
DomainRule(domain, val) ==
    LET page == val \div U16
        id == val % U16
    IN  \/ domain = "NULL" /\ val = 0
        \/ domain = "LAYER_INDEX" /\ val < ZMK_KEYMAP_LEN
        \/ domain = "HSV"
        \/ /\ domain = "HID_USAGE"
           /\ \/ page = HID_USAGE_KEY /\ 1 <= id /\ id <= ZMK_HID_KEYBOARD_NKRO_MAX_USAGE
              \/ page = HID_USAGE_CONSUMER /\ config.consumer_basic /\ id <= 255
              \/ page = HID_USAGE_CONSUMER /\ ~config.consumer_basic /\ id <= 4095

\* C7: validate_domain succeeds exactly on Null with 0, a layer index below
\* the layer count, any Hsv value, and a HID usage on the Keyboard page with
\* 1 <= id <= MAX_KEYBOARD_USAGE or on the Consumer page with id <= 0xFF
\* (basic only) or id <= 0xFFF; every other usage page is rejected.
C7_DomainRules ==
    Returned("validate_standard_param") =>
        /\ (ret = 0) <=> DomainRule(call.domain, call.val)
        /\ ret # 0 => ret = -EINVAL

\* The largest keyboard usage is accepted.
C7_Witness ==
    /\ Returned("validate_standard_param")
    /\ call.domain = "HID_USAGE"
    /\ call.val = ZMK_HID_USAGE(HID_USAGE_KEY, ZMK_HID_KEYBOARD_NKRO_MAX_USAGE)
    /\ ret = 0

\* Does the descriptor accept the parameter?
Matches(value_meta, param) ==
    \/ value_meta.type = "STANDARD" /\ DomainRule(value_meta.standard, param)
    \/ value_meta.type = "VALUE" /\ param = value_meta.value
    \/ value_meta.type = "RANGE" /\ value_meta.min <= param /\ param <= value_meta.max

Tagged(set, pos) == {v \in 1..Len(set) : set[v].position = pos}

PositionSatisfied(set, pos, param) ==
    \/ \E v \in Tagged(set, pos) : Matches(set[v], param)
    \/ Tagged(set, pos) = {} /\ param = 0

SetMatches(set, param1, param2) ==
    PositionSatisfied(set, 0, param1) /\ PositionSatisfied(set, 1, param2)

\* C1: with a present set list, validate_custom_params returns success iff
\* some set has both positions satisfied, a position being satisfied by a
\* matching descriptor tagged for it or, when no descriptor is tagged for it,
\* by the parameter 0; otherwise it returns -EINVAL.  The early exit of the
\* single loop never changes this.
C1_CustomResult ==
    (Returned("validate_custom_params") /\ call.custom.present) =>
        ret = IF \E s \in 1..Len(call.custom.sets) :
                     SetMatches(call.custom.sets[s], call.param1, call.param2)
              THEN 0 ELSE -EINVAL

\* The loop left a set of three descriptors after two of them and the call
\* succeeded.
C1_Witness ==
    /\ Returned("validate_custom_params")
    /\ ret = 0
    /\ \E s \in 1..Len(call.custom.sets) :
           /\ Len(call.custom.sets[s]) = 3
           /\ \E k \in Events(log, "value") : log[k][2] = s /\ log[k][3] = 2
           /\ ~\E k \in Events(log, "value") : log[k][2] = s /\ log[k][3] = 3

ParamAt(set, v) == IF set[v].position = 0 THEN call.param1 ELSE call.param2

\* The set is reached: no set before it matched.
Visited(s) ==
    \A t \in 1..(s - 1) : ~SetMatches(call.custom.sets[t], call.param1, call.param2)

Evaluated(s, v) == \E k \in Events(log, "value") : log[k][2] = s /\ log[k][3] = v

\* A descriptor before v, tagged pos, matches.
MatchedBefore(set, v, pos) ==
    \E u \in 1..(v - 1) :
        set[u].position = pos /\ Matches(set[u], IF pos = 0 THEN call.param1 ELSE call.param2)

\* C9 as stated: once a descriptor tagged for a position has matched, no
\* further descriptor tagged for that position is evaluated in the set, while
\* the descriptors of a position still unmatched go on being evaluated.
C9_PerPositionShortCircuit ==
    Returned("validate_custom_params") =>
        \A s \in 1..Len(call.custom.sets) : \A v \in 1..Len(call.custom.sets[s]) :
            LET set == call.custom.sets[s]
            IN  /\ (Evaluated(s, v) /\ MatchedBefore(set, v, set[v].position)) => FALSE
                /\ (Visited(s) /\ ~MatchedBefore(set, v, set[v].position))
                       => Evaluated(s, v)

\* C9, amended: in one set the descriptors are evaluated in order until both
\* positions have matched or the set is exhausted.  Once both have matched no
\* further descriptor of the set is evaluated; while either position is
\* unmatched every next descriptor is evaluated whatever its tag, so a
\* descriptor tagged for a position that already matched is evaluated too, and
\* the Domain Validator is called once for each Standard descriptor evaluated.
C9_ExitWhenBothMatched ==
    Returned("validate_custom_params") =>
        /\ \A s \in 1..Len(call.custom.sets) : \A v \in 1..Len(call.custom.sets[s]) :
               LET set == call.custom.sets[s]
               IN  Evaluated(s, v) <=>
                       /\ Visited(s)
                       /\ ~(MatchedBefore(set, v, 0) /\ MatchedBefore(set, v, 1))
        /\ \A k \in Events(log, "value") : \A m \in Events(log, "value") :
               k < m => \/ log[k][2] < log[m][2]
                        \/ log[k][2] = log[m][2] /\ log[k][3] < log[m][3]
        /\ \A k \in Events(log, "value") :
               LET set == call.custom.sets[log[k][2]]
                   v == log[k][3]
               IN  set[v].type = "STANDARD" <=>
                       /\ k < Len(log)
                       /\ log[k + 1][1] = "validate_standard_param"
        /\ \A k \in Events(log, "validate_standard_param") :
               /\ k > 1
               /\ log[k - 1][1] = "value"
               /\ LET set == call.custom.sets[log[k - 1][2]]
                      v == log[k - 1][3]
                  IN  /\ log[k][2] = set[v].standard
                      /\ log[k][3] = ParamAt(set, v)

\* A Standard descriptor is evaluated, and the Domain Validator called for it,
\* although an earlier descriptor of the set had matched its position.
C9_Witness ==
    /\ Returned("validate_custom_params")
    /\ \E s \in 1..Len(call.custom.sets) : \E v \in 1..Len(call.custom.sets[s]) :
           LET set == call.custom.sets[s]
           IN  /\ set[v].type = "STANDARD"
               /\ MatchedBefore(set, v, set[v].position)
               /\ Evaluated(s, v)

Unresolvable(name) == ReadyByteEqual(registry, name) = {}

Fetches == Events(log, "behavior_get_parameter_domains")

\* C5: with metadata validation enabled, validate on a binding whose behavior
\* name resolves to no ready registered entry fails with -ENODEV and the
\* metadata provider is not called.
C5_UnknownBehavior ==
    (Returned("validate") /\ config.metadata
         /\ Unresolvable(call.binding.behavior_dev)) =>
        /\ ret = -ENODEV
        /\ Fetches = {}

\* The only entry bearing the binding's name is not ready, and the provider
\* would have answered with metadata.
C5_Witness ==
    /\ Returned("validate")
    /\ config.metadata
    /\ Len(registry) >= 1
    /\ SameBytes(registry[1].name, call.binding.behavior_dev)
    /\ Unresolvable(call.binding.behavior_dev)
    /\ call.response.ret = 0
    /\ ret = -ENODEV

StandardFetched ==
    /\ Returned("validate")
    /\ config.metadata
    /\ ~Unresolvable(call.binding.behavior_dev)
    /\ call.response.ret = 0
    /\ call.response.metadata.type = "STANDARD"

DomainCalls == [k \in 1..(Len(log) - 1) |-> <<log[k + 1][2], log[k + 1][3]>>]

\* C6: with Standard metadata, a param1 that fails its domain makes validate
\* return that failure without the domain check of param2 being evaluated;
\* otherwise validate returns the result of checking param2; so validate
\* succeeds iff both checks succeed.
C6_StandardShortCircuit ==
    StandardFetched =>
        LET standard == call.response.metadata.standard
            r1 == IF DomainRule(standard.param1, call.binding.param1) THEN 0 ELSE -EINVAL
            r2 == IF DomainRule(standard.param2, call.binding.param2) THEN 0 ELSE -EINVAL
        IN  /\ log[1][1] = "behavior_get_parameter_domains"
            /\ \A k \in 2..Len(log) : log[k][1] = "validate_standard_param"
            /\ r1 < 0 => /\ ret = r1
                         /\ DomainCalls = <<<<standard.param1, call.binding.param1>>>>
            /\ r1 = 0 => /\ ret = r2
                         /\ DomainCalls = <<<<standard.param1, call.binding.param1>>,
                                            <<standard.param2, call.binding.param2>>>>
            /\ (ret = 0) <=> (r1 = 0 /\ r2 = 0)

\* param1 fails its domain although param2 would pass its own.
C6_Witness ==
    /\ StandardFetched
    /\ ret = -EINVAL
    /\ Len(log) = 2
    /\ DomainRule(call.response.metadata.standard.param2, call.binding.param2)

\* C10: validate returns the same value, -ENODEV, when the behavior name does
\* not resolve and when the behavior resolves and publishes Custom metadata
\* whose set list is absent; that value is neither -EINVAL nor -ENOTSUP.
C10_SameErrorTwice ==
    (Returned("validate") /\ config.metadata) =>
        /\ Unresolvable(call.binding.behavior_dev) => ret = -ENODEV
        /\ (/\ ~Unresolvable(call.binding.behavior_dev)
            /\ call.response.ret = 0
            /\ call.response.metadata.type = "CUSTOM"
            /\ ~call.response.metadata.custom.present) => ret = -ENODEV
        /\ ret = -ENODEV => (ret # -EINVAL /\ ret # -ENOTSUP)

\* The behavior resolved, its Custom metadata has no set list, and validate
\* returned -ENODEV.
C10_Witness ==
    /\ Returned("validate")
    /\ config.metadata
    /\ ~Unresolvable(call.binding.behavior_dev)
    /\ call.response.ret = 0
    /\ call.response.metadata.type = "CUSTOM"
    /\ ~call.response.metadata.custom.present
    /\ ret = -ENODEV

====
